---------------------------- MODULE Spec2Model ----------------------------
(***************************************************************************)
(* A model of the static type checker of checker.py and of its caller in   *)
(* app.py.  A checking run (run_python_checker) resets the module-level    *)
(* symbol_table, parses the source and walks the tree with a TypeChecker   *)
(* (an ast.NodeVisitor).  The statement handlers are the actions of the    *)
(* model; the visit of an expression never changes the symbol table and is *)
(* computed by recursive operators inside the action of the statement that *)
(* holds the expression.  The statements of a nested body are put in front *)
(* of the run's agenda, which is the depth-first order of the recursion.   *)
(* Line numbers are left out of the diagnostics.                           *)
(***************************************************************************)
EXTENDS Naturals, Sequences, FiniteSets, TLC

VARIABLES
    symbol_table,   \* checker.py:10, the module-level dict name -> type
    pc,             \* per run: "idle", "walk", "returned" or "raised"
    code,           \* per run: the source text handed to run_python_checker
    agenda,         \* per run: the statements still to be visited, in order
    errors,         \* per run: checker.errors
    result,         \* per run: what run_python_checker returned or raised
    last_outcome    \* history: the kind of result of the last answered request

vars == <<symbol_table, pc, code, agenda, errors, result, last_outcome>>

(***************************************************************************)
(* Bounds.                                                                 *)
(***************************************************************************)
MaxStmts == 2       \* top-level statements of a source text

Runs == {1, 2}      \* request threads of the server

(***************************************************************************)
(* Types and diagnostics.                                                  *)
(***************************************************************************)
SUPPORTED_TYPES == {"int", "float", "str", "bool"}

REGEX_FUNCTIONS == {"match", "search", "fullmatch", "findall", "finditer"}

EmptyTable == [n \in {} |-> "unknown"]

NoExc == [kind |-> "none", name |-> "", was |-> "", now |-> ""]

UndefinedVariable(id) ==
    [kind |-> "Undefined variable", name |-> id, was |-> "", now |-> ""]

TypeMismatch == [kind |-> "Type Mismatch", name |-> "", was |-> "", now |-> ""]

VariableWasNow(id, t1, t2) ==
    [kind |-> "Variable was now", name |-> id, was |-> t1, now |-> t2]

RegexPatternNotStr ==
    [kind |-> "regex pattern argument must be 'str'", name |-> "", was |-> "", now |-> ""]

RegexStringNotStr ==
    [kind |-> "regex match argument must be 'str'", name |-> "", was |-> "", now |-> ""]

RegexArity(attr) ==
    [kind |-> "expects at least 2 arguments", name |-> attr, was |-> "", now |-> ""]

(***************************************************************************)
(* Tree nodes, as ast.parse builds them.                                   *)
(***************************************************************************)
Constant(py) == [kind |-> "Constant", py |-> py]
Name(id) == [kind |-> "Name", id |-> id]
BinOp(l, r) == [kind |-> "BinOp", left |-> l, right |-> r]
Attribute(v, attr) == [kind |-> "Attribute", value |-> v, attr |-> attr]
Call(f, args) == [kind |-> "Call", func |-> f, args |-> args]
TupleNode(elts) == [kind |-> "Tuple", elts |-> elts]

Assign(targets, v) == [kind |-> "Assign", targets |-> targets, value |-> v]
ExprStmt(v) == [kind |-> "Expr", value |-> v]
Return(v) == [kind |-> "Return", value |-> v]
If(test, body, orelse) == [kind |-> "If", test |-> test, body |-> body, orelse |-> orelse]
For(target, iter, body) == [kind |-> "For", target |-> target, iter |-> iter, body |-> body]
FunctionDef(body) == [kind |-> "FunctionDef", body |-> body]
While(test, body, orelse) == [kind |-> "While", test |-> test, body |-> body, orelse |-> orelse]
Module(body) == [kind |-> "Module", body |-> body]
Malformed == [kind |-> "Malformed"]

IsRegexCall(node) ==
    /\ node.kind = "Call"
    /\ node.func.kind = "Attribute"
    /\ node.func.value.kind = "Name"
    /\ node.func.value.id = "re"
    /\ node.func.attr \in REGEX_FUNCTIONS

(***************************************************************************)
(* The result of an inference: a type, or a raised TypeErrorException.     *)
(***************************************************************************)
Returns(t) == [raised |-> FALSE, type |-> t, exc |-> NoExc]
Raises(e) == [raised |-> TRUE, type |-> "", exc |-> e]

RECURSIVE infer_type(_, _)
RECURSIVE visit_BinOp(_, _)

\* TypeChecker.infer_type, with the symbol table it reads as a parameter.
infer_type(node, tbl) ==
    IF node.kind = "Constant"
    THEN IF node.py \in SUPPORTED_TYPES THEN Returns(node.py) ELSE Returns("unknown")
    ELSE IF node.kind = "Name"
    THEN IF node.id \in DOMAIN tbl
         THEN Returns(tbl[node.id])
         ELSE Raises(UndefinedVariable(node.id))
    ELSE IF node.kind = "BinOp"
    THEN visit_BinOp(node, tbl)
    ELSE IF node.kind = "Call"
    THEN IF node.func.kind = "Name" /\ node.func.id \in SUPPORTED_TYPES
         THEN Returns(node.func.id)
         ELSE Returns("unknown")
    ELSE Returns("unknown")

\* TypeChecker.visit_BinOp: the left operand is inferred first, and a failure
\* of either inference propagates.
visit_BinOp(node, tbl) ==
    LET left_type == infer_type(node.left, tbl)
        right_type == infer_type(node.right, tbl)
    IN  IF left_type.raised THEN left_type
        ELSE IF right_type.raised THEN right_type
        ELSE IF left_type.type # right_type.type THEN Raises(TypeMismatch)
        ELSE left_type

(***************************************************************************)
(* The walker: w.table is the symbol table, w.errors is checker.errors,    *)
(* w.exc the exception in flight (NoExc when none) and w.todo the          *)
(* statements still to visit.                                              *)
(***************************************************************************)
Walker(tbl, errs, todo) == [table |-> tbl, errors |-> errs, exc |-> NoExc, todo |-> todo]

Raised(w) == w.exc # NoExc

AddError(w, e) == [w EXCEPT !.errors = Append(@, e)]

\* The fields of a node that hold expressions, in the order of node._fields.
ExprFields(node) ==
    CASE node.kind = "Assign" -> node.targets \o <<node.value>>
      [] node.kind \in {"Expr", "Return"} -> <<node.value>>
      [] node.kind = "While" -> <<node.test>>
      [] node.kind = "Attribute" -> <<node.value>>
      [] node.kind = "Tuple" -> node.elts
      [] node.kind = "Call" -> <<node.func>> \o node.args
      [] OTHER -> << >>

\* StmtFields with the body of a while loop left out.
StmtFields_SkipsWhile(node) ==
    CASE node.kind = "Module" -> node.body
      [] OTHER -> << >>

\* The fields of a node that hold statements (they follow the expressions).
StmtFields(node) ==
    CASE node.kind = "Module" -> node.body
      [] node.kind = "While" -> node.body \o node.orelse
      [] OTHER -> << >>

RECURSIVE visit(_, _)
RECURSIVE VisitEach(_, _)
RECURSIVE generic_visit(_, _)
RECURSIVE visit_Call(_, _)

\* for stmt in ...: self.visit(stmt), stopped by an exception.
VisitEach(nodes, w) ==
    IF nodes = << >> \/ Raised(w) THEN w
    ELSE VisitEach(Tail(nodes), visit(Head(nodes), w))

\* ast.NodeVisitor.generic_visit: every child node is visited, field by field.
generic_visit(node, w) ==
    LET w1 == VisitEach(ExprFields(node), w)
    IN  IF Raised(w1) THEN w1
        ELSE [w1 EXCEPT !.todo = StmtFields(node) \o @]

\* TypeChecker.visit_Call.
visit_Call(node, w) ==
    IF IsRegexCall(node)
    THEN IF Len(node.args) >= 2
         THEN LET pattern_type == infer_type(node.args[1], w.table)
                  string_type == infer_type(node.args[2], w.table)
                  w1 == IF pattern_type.type # "str"
                        THEN AddError(w, RegexPatternNotStr) ELSE w
                  w2 == IF string_type.type # "str"
                        THEN AddError(w1, RegexStringNotStr) ELSE w1
              IN  IF pattern_type.raised THEN [w EXCEPT !.exc = pattern_type.exc]
                  ELSE IF string_type.raised THEN [w EXCEPT !.exc = string_type.exc]
                  ELSE generic_visit(node, w2)
         ELSE generic_visit(node, AddError(w, RegexArity(node.func.attr)))
    ELSE generic_visit(node, w)

\* visit_Assign with the table overwritten when the type differs.
visit_Assign_Retypes(node, w) ==
    LET var_name == node.targets[1].id
        value_type == infer_type(node.value, w.table)
        w1 == IF node.targets[1].kind # "Name" THEN w
              ELSE IF value_type.raised THEN AddError(w, value_type.exc)
              ELSE IF var_name \in DOMAIN w.table
              THEN IF w.table[var_name] # value_type.type
                   THEN [AddError(w, VariableWasNow(var_name, w.table[var_name],
                                                    value_type.type))
                            EXCEPT !.table = (var_name :> value_type.type) @@ @]
                   ELSE w
              ELSE [w EXCEPT !.table = @ @@ (var_name :> value_type.type)]
    IN  generic_visit(node, w1)

\* visit_Assign with the target bound to "unknown" when the inference fails.
visit_Assign_BindsOnFailure(node, w) ==
    LET var_name == node.targets[1].id
        value_type == infer_type(node.value, w.table)
        w1 == IF node.targets[1].kind # "Name" THEN w
              ELSE IF value_type.raised
              THEN [AddError(w, value_type.exc)
                       EXCEPT !.table = @ @@ (var_name :> "unknown")]
              ELSE IF var_name \in DOMAIN w.table
              THEN IF w.table[var_name] # value_type.type
                   THEN AddError(w, VariableWasNow(var_name, w.table[var_name],
                                                   value_type.type))
                   ELSE w
              ELSE [w EXCEPT !.table = @ @@ (var_name :> value_type.type)]
    IN  generic_visit(node, w1)

\* TypeChecker.visit_Assign.
visit_Assign(node, w) ==
    LET var_name == node.targets[1].id
        value_type == infer_type(node.value, w.table)
        w1 == IF node.targets[1].kind # "Name" THEN w
              ELSE IF value_type.raised THEN AddError(w, value_type.exc)
              ELSE IF var_name \in DOMAIN w.table
              THEN IF w.table[var_name] # value_type.type
                   THEN AddError(w, VariableWasNow(var_name, w.table[var_name],
                                                   value_type.type))
                   ELSE w
              ELSE [w EXCEPT !.table = @ @@ (var_name :> value_type.type)]
    IN  generic_visit(node, w1)

\* TypeChecker.visit_FunctionDef.
visit_FunctionDef(node, w) == [w EXCEPT !.todo = node.body \o @]

\* TypeChecker.visit_For.
visit_For(node, w) ==
    LET w1 == visit(node.iter, w)
    IN  IF Raised(w1) THEN w1 ELSE [w1 EXCEPT !.todo = node.body \o @]

\* TypeChecker.visit_If.
visit_If(node, w) ==
    LET w1 == visit(node.test, w)
    IN  IF Raised(w1) THEN w1 ELSE [w1 EXCEPT !.todo = node.body \o node.orelse \o @]

\* ast.NodeVisitor.visit: the handler named after the node's class, or
\* generic_visit.  The value visit_BinOp returns is dropped.
visit(node, w) ==
    CASE node.kind = "Assign" -> visit_Assign(node, w)
      [] node.kind = "FunctionDef" -> visit_FunctionDef(node, w)
      [] node.kind = "For" -> visit_For(node, w)
      [] node.kind = "If" -> visit_If(node, w)
      [] node.kind = "BinOp" ->
            LET t == visit_BinOp(node, w.table)
            IN  IF t.raised THEN [w EXCEPT !.exc = t.exc] ELSE w
      [] node.kind = "Call" -> visit_Call(node, w)
      [] OTHER -> generic_visit(node, w)


\* run_python_checker's outcome for a walk that ended: lines 106-111, or the
\* TypeErrorException that no handler of run_python_checker catches.
Outcome(w) ==
    IF Raised(w) THEN [kind |-> "TypeErrorException", errors |-> <<w.exc>>]
    ELSE IF w.errors # << >> THEN [kind |-> "HasErrors", errors |-> w.errors]
    ELSE [kind |-> "Clean", errors |-> << >>]

SyntaxFailure == [kind |-> "SyntaxError", errors |-> << >>]

NoResult == [kind |-> "none", errors |-> << >>]

NoCode == [kind |-> "none"]

(***************************************************************************)
(* The source texts of the model: every sequence of at most MaxStmts       *)
(* statements of StmtPool, and a text that does not parse.                 *)
(***************************************************************************)
IntLit == Constant("int")
StrLit == Constant("str")
NoneLit == Constant("NoneType")
X == Name("x")
Y == Name("y")
Re(attr, args) == Call(Attribute(Name("re"), attr), args)

StmtPool ==
    { Assign(<<X>>, IntLit),                              \* x = 1
      Assign(<<X>>, StrLit),                              \* x = "s"
      Assign(<<Y>>, X),                                   \* y = x
      Assign(<<X>>, Y),                                   \* x = y
      Assign(<<X>>, BinOp(IntLit, StrLit)),               \* x = 1 + "s"
      Assign(<<Y>>, BinOp(X, IntLit)),                    \* y = x + 1
      Assign(<<Y>>, NoneLit),                             \* y = None
      Assign(<<Y>>, BinOp(IntLit, NoneLit)),              \* y = 1 + None
      Assign(<<X, Y>>, IntLit),                           \* x = y = 1
      Assign(<<TupleNode(<<X, Y>>)>>, TupleNode(<<IntLit, NoneLit>>)),
                                                          \* x, y = 1, None
      Assign(<<X>>, Re("match", <<StrLit>>)),             \* x = re.match("p")
      ExprStmt(Re("match", <<IntLit, StrLit>>)),          \* re.match(1, "s")
      ExprStmt(Re("finditer", <<StrLit>>)),               \* re.finditer("p")
      ExprStmt(BinOp(IntLit, StrLit)),                    \* 1 + "s"
      If(BinOp(IntLit, StrLit), << >>, << >>),            \* if 1 + "s": pass
      ExprStmt(Re("search", <<X, IntLit>>)),              \* re.search(x, 1)
      If(X, <<Assign(<<X>>, IntLit)>>, <<Assign(<<X>>, StrLit)>>),
                                                          \* if x: x = 1  else: x = "s"
      For(Y, X, <<Assign(<<X>>, Call(Name("str"), <<IntLit>>))>>),
                                                          \* for y in x: x = str(1)
      FunctionDef(<<Assign(<<X>>, StrLit), Return(BinOp(X, NoneLit))>>),
                                                          \* def f(): x = "s"; return x + None
      While(X, <<Assign(<<X>>, IntLit)>>, << >>) }        \* while x: x = 1

\* The statements of the source texts that two requests check at once.
ConcPool ==
    { Assign(<<X>>, IntLit),                              \* x = 1
      Assign(<<Y>>, X),                                   \* y = x
      FunctionDef(<<For(Y, X, <<If(X, <<Assign(<<X>>, StrLit)>>, << >>)>>)>>),
                                            \* def f(): for y in x: if x: x = "s"
      ExprStmt(Re("search", <<X, IntLit>>)) }             \* re.search(x, 1)

SeqsUpTo(S, n) == UNION { [1..k -> S] : k \in 0..n }

Sources == { Module(b) : b \in SeqsUpTo(StmtPool, MaxStmts) } \cup {Malformed}

ConcSources == { Module(b) : b \in SeqsUpTo(ConcPool, MaxStmts) } \cup {Malformed}

(***************************************************************************)
(* The state machine.                                                      *)
(***************************************************************************)
Init ==
    /\ symbol_table = EmptyTable
    /\ pc = [r \in Runs |-> "idle"]
    /\ code = [r \in Runs |-> NoCode]
    /\ agenda = [r \in Runs |-> << >>]
    /\ errors = [r \in Runs |-> << >>]
    /\ result = [r \in Runs |-> NoResult]
    /\ last_outcome = "none"

\* The table of the run before, kept.
KeepTable == symbol_table

\* symbol_table = {} at the head of run_python_checker.
ResetTable == EmptyTable

\* run_python_checker up to the call of checker.visit(tree): the reset of the
\* global table, ast.parse and the new TypeChecker; a text that does not parse
\* returns the syntax error at once.
run_python_checker(r, c) ==
    /\ pc[r] = "idle"
    /\ symbol_table' = ResetTable
    /\ code' = [code EXCEPT ![r] = c]
    /\ errors' = [errors EXCEPT ![r] = << >>]
    /\ IF c.kind = "Module"
       THEN /\ pc' = [pc EXCEPT ![r] = "walk"]
            /\ agenda' = [agenda EXCEPT ![r] = <<c>>]
            /\ result' = [result EXCEPT ![r] = NoResult]
       ELSE /\ pc' = [pc EXCEPT ![r] = "returned"]
            /\ agenda' = [agenda EXCEPT ![r] = << >>]
            /\ result' = [result EXCEPT ![r] = SyntaxFailure]
    /\ UNCHANGED last_outcome

\* The state a handler leaves behind: the table and the errors it wrote, and
\* either the rest of the walk or the exception that leaves run_python_checker.
Commit(r, w) ==
    /\ symbol_table' = w.table
    /\ errors' = [errors EXCEPT ![r] = w.errors]
    /\ IF Raised(w)
       THEN /\ pc' = [pc EXCEPT ![r] = "raised"]
            /\ agenda' = [agenda EXCEPT ![r] = << >>]
            /\ result' = [result EXCEPT ![r] = Outcome(w)]
       ELSE /\ agenda' = [agenda EXCEPT ![r] = w.todo]
            /\ UNCHANGED <<pc, result>>
    /\ UNCHANGED <<code, last_outcome>>

Visiting(r, kinds) ==
    /\ pc[r] = "walk"
    /\ agenda[r] # << >>
    /\ Head(agenda[r]).kind \in kinds

Here(r) == Walker(symbol_table, errors[r], Tail(agenda[r]))

VisitAssign(r) ==
    /\ Visiting(r, {"Assign"})
    /\ Commit(r, visit_Assign(Head(agenda[r]), Here(r)))

VisitFunctionDef(r) ==
    /\ Visiting(r, {"FunctionDef"})
    /\ Commit(r, visit_FunctionDef(Head(agenda[r]), Here(r)))

VisitFor(r) ==
    /\ Visiting(r, {"For"})
    /\ Commit(r, visit_For(Head(agenda[r]), Here(r)))

VisitIf(r) ==
    /\ Visiting(r, {"If"})
    /\ Commit(r, visit_If(Head(agenda[r]), Here(r)))

\* A statement with no handler of its own: the module, an expression
\* statement, a return, a while loop.
GenericVisit(r) ==
    /\ Visiting(r, {"Module", "Expr", "Return", "While"})
    /\ Commit(r, generic_visit(Head(agenda[r]), Here(r)))

\* checker.visit(tree) has returned: lines 106-111.
ReturnResult(r) ==
    /\ pc[r] = "walk"
    /\ agenda[r] = << >>
    /\ pc' = [pc EXCEPT ![r] = "returned"]
    /\ result' = [result EXCEPT ![r] = Outcome(Walker(symbol_table, errors[r], << >>))]
    /\ UNCHANGED <<symbol_table, code, agenda, errors, last_outcome>>

\* app.py index(): the request is answered and the thread takes the next one.
Respond(r) ==
    /\ pc[r] \in {"returned", "raised"}
    /\ last_outcome' = result[r].kind
    /\ pc' = [pc EXCEPT ![r] = "idle"]
    /\ code' = [code EXCEPT ![r] = NoCode]
    /\ errors' = [errors EXCEPT ![r] = << >>]
    /\ result' = [result EXCEPT ![r] = NoResult]
    /\ UNCHANGED <<symbol_table, agenda>>

Walk(r) ==
    \/ VisitAssign(r)
    \/ VisitFunctionDef(r)
    \/ VisitFor(r)
    \/ VisitIf(r)
    \/ GenericVisit(r)
    \/ ReturnResult(r)
    \/ Respond(r)

\* One thread serves the requests, one after another.
SingleThread == {1}

Next ==
    \E r \in SingleThread :
        \/ pc[r] = "idle" /\ \E c \in Sources : run_python_checker(r, c)
        \/ Walk(r)

Spec == Init /\ [][Next]_vars

\* The threads of Runs serve requests at once, and their steps interleave.
NextConc ==
    \E r \in Runs :
        \/ pc[r] = "idle" /\ \E c \in ConcSources : run_python_checker(r, c)
        \/ Walk(r)

SpecConc == Init /\ [][NextConc]_vars

\* The result of a run on its own: the walk from an empty table.
RECURSIVE WalkAll(_)
WalkAll(w) ==
    IF Raised(w) \/ w.todo = << >> THEN w
    ELSE WalkAll(visit(Head(w.todo), [w EXCEPT !.todo = Tail(@)]))

RunAlone(c) ==
    IF c.kind = "Module"
    THEN Outcome(WalkAll(Walker(EmptyTable, << >>, <<c>>)))
    ELSE SyntaxFailure


(***************************************************************************)
(* The properties.                                                         *)
(***************************************************************************)
\* Run r visits the node at the head of its agenda in this step.
Stepped(r) ==
    /\ pc[r] = "walk"
    /\ agenda[r] # << >>
    /\ (agenda'[r] # agenda[r] \/ pc'[r] # "walk")

Node(r) == Head(agenda[r])

Ended(r) == pc[r] \in {"returned", "raised"}

IsPlainAssign(n) ==
    /\ n.kind = "Assign"
    /\ Len(n.targets) = 1
    /\ n.targets[1].kind = "Name"

Count(errs, kind) == Cardinality({i \in 1..Len(errs) : errs[i].kind = kind})

Inferred(node) == infer_type(node, symbol_table)

\* C1: a run on a source text that parses ends by returning Clean or
\* HasErrors; no TypeErrorException leaves run_python_checker.
C1_NoExceptionLeavesRun ==
    \A r \in Runs :
        (Ended(r) /\ code[r].kind = "Module") => result[r].kind \in {"Clean", "HasErrors"}

\* C2: the visit of an assignment to a plain name whose right-hand side is a
\* binary operation with operands of different inferred types adds exactly one
\* type-mismatch diagnostic, leaves the symbol table as it is, and the walk
\* goes on with the statements that follow.
C2_MismatchedAssignIsDiagnosed ==
    [][\A r \in Runs :
          ( /\ Stepped(r)
            /\ IsPlainAssign(Node(r))
            /\ Node(r).value.kind = "BinOp"
            /\ ~Inferred(Node(r).value.left).raised
            /\ ~Inferred(Node(r).value.right).raised
            /\ Inferred(Node(r).value.left).type # Inferred(Node(r).value.right).type )
          => /\ errors'[r] = Append(errors[r], TypeMismatch)
             /\ symbol_table' = symbol_table
             /\ pc'[r] = "walk"
             /\ agenda'[r] = Tail(agenda[r])]_vars

\* C3: while a run walks its tree, a name bound in the symbol table stays
\* bound to the same type, and the visit of an assignment of a bound name to a
\* value of another inferred type adds exactly one 'was T1, now T2' diagnostic
\* and leaves the table unchanged.
C3_FirstSeenTypeWins ==
    [][\A r \in Runs :
          Stepped(r) =>
             /\ \A n \in DOMAIN symbol_table :
                   n \in DOMAIN symbol_table' /\ symbol_table'[n] = symbol_table[n]
             /\ ( /\ Node(r).kind = "Assign"
                  /\ Node(r).targets[1].kind = "Name"
                  /\ Node(r).targets[1].id \in DOMAIN symbol_table
                  /\ ~Inferred(Node(r).value).raised
                  /\ Inferred(Node(r).value).type # symbol_table[Node(r).targets[1].id] )
                => /\ symbol_table' = symbol_table
                   /\ Len(errors'[r]) > Len(errors[r])
                   /\ errors'[r][Len(errors[r]) + 1] =
                         VariableWasNow(Node(r).targets[1].id,
                                        symbol_table[Node(r).targets[1].id],
                                        Inferred(Node(r).value).type)
                   /\ Count(errors'[r], "Variable was now") =
                         Count(errors[r], "Variable was now") + 1]_vars

\* C3 witness: x was bound to int at top level and assigned a str in a branch
\* of the conditional that follows; the diagnostic is there and x is still int.
C3_Witness ==
    \E r \in Runs :
        /\ pc[r] = "walk"
        /\ agenda[r] = << >>
        /\ Len(code[r].body) = 2
        /\ code[r].body[2].kind = "If"
        /\ errors[r] = <<VariableWasNow("x", "int", "str")>>
        /\ symbol_table["x"] = "int"

\* C4: a run that ended returned what the same source returns when it is
\* checked alone, whatever other runs did in the meantime.
C4_RunsAreIsolated ==
    \A r \in Runs : Ended(r) => result[r] = RunAlone(code[r])

\* The diagnostic for an argument of a regex call, when its inferred type is
\* not str.
UnlessStr(arg, e) ==
    IF ~Inferred(arg).raised /\ Inferred(arg).type # "str" THEN <<e>> ELSE << >>

\* C5: the visit of a call of a regex function adds exactly one arity
\* diagnostic when the call has fewer than two arguments, and otherwise one
\* diagnostic for each of the first two arguments whose inferred type is not str.
C5_RegexCallDiagnostics ==
    [][\A r \in Runs :
          (Stepped(r) /\ Node(r).kind = "Expr" /\ IsRegexCall(Node(r).value))
          => LET call == Node(r).value
             IN  IF Len(call.args) < 2
                 THEN errors'[r] = Append(errors[r], RegexArity(call.func.attr))
                 ELSE errors'[r] = errors[r]
                                     \o UnlessStr(call.args[1], RegexPatternNotStr)
                                     \o UnlessStr(call.args[2], RegexStringNotStr)]_vars

\* C6: the type unknown takes part in no mismatch: a binary operation with an
\* operand of type unknown neither fails nor adds a type-mismatch diagnostic,
\* and the assignment of a name adds no 'was T1, now T2' diagnostic when T1 or
\* T2 is unknown.
C6_UnknownNeverMismatches ==
    [][\A r \in Runs :
          (Stepped(r) /\ Node(r).kind = "Assign" /\ Node(r).targets[1].kind = "Name")
          => LET v == Node(r).value
                 id == Node(r).targets[1].id
             IN  /\ ( /\ v.kind = "BinOp"
                      /\ ~Inferred(v.left).raised
                      /\ ~Inferred(v.right).raised
                      /\ "unknown" \in {Inferred(v.left).type, Inferred(v.right).type} )
                    => /\ pc'[r] # "raised"
                       /\ Count(errors'[r], "Type Mismatch") =
                             Count(errors[r], "Type Mismatch")
                 /\ ( /\ id \in DOMAIN symbol_table
                      /\ ~Inferred(v).raised
                      /\ "unknown" \in {symbol_table[id], Inferred(v).type} )
                    => Count(errors'[r], "Variable was now") =
                          Count(errors[r], "Variable was now")]_vars

\* C7: the visit of an assignment of a plain name to a name that is not bound
\* adds exactly one undefined-variable diagnostic, binds nothing, and the walk
\* goes on with the statements that follow.
C7_UndefinedNameIsDiagnosed ==
    [][\A r \in Runs :
          ( /\ Stepped(r)
            /\ IsPlainAssign(Node(r))
            /\ Node(r).value.kind = "Name"
            /\ Node(r).value.id \notin DOMAIN symbol_table )
          => /\ errors'[r] = Append(errors[r], UndefinedVariable(Node(r).value.id))
             /\ symbol_table' = symbol_table
             /\ pc'[r] = "walk"
             /\ agenda'[r] = Tail(agenda[r])]_vars

\* C7 witness: y = x with x unbound, then x = y: y was not bound by the first
\* assignment, so the second one is an undefined variable too.
C7_Witness ==
    \E r \in Runs :
        /\ pc[r] = "walk"
        /\ code[r] = Module(<<Assign(<<Y>>, X), Assign(<<X>>, Y)>>)
        /\ errors[r] = <<UndefinedVariable("x"), UndefinedVariable("y")>>
        /\ symbol_table = EmptyTable

\* C8: when runs follow one another, the symbol table is empty when the walk
\* of a run begins, and the result of a run is the result of its source text
\* checked alone: the same for every run of that text.
C8_RunsDependOnlyOnSource ==
    \A r \in Runs :
        /\ (pc[r] = "walk" /\ agenda[r] = <<code[r]>>) => symbol_table = EmptyTable
        /\ Ended(r) => result[r] = RunAlone(code[r])

\* C8 witness: y = x is reported as an undefined variable in a run that
\* follows a clean run.
C8_Witness ==
    \E r \in Runs :
        /\ pc[r] = "returned"
        /\ last_outcome = "Clean"
        /\ code[r] = Module(<<Assign(<<Y>>, X)>>)
        /\ result[r] = [kind |-> "HasErrors", errors |-> <<UndefinedVariable("x")>>]

\* C9: the visit of an assignment with several targets or with a tuple of
\* targets adds no diagnostic and leaves the symbol table unchanged.
C9_MultiTargetIgnored ==
    [][\A r \in Runs :
          ( /\ Stepped(r)
            /\ Node(r).kind = "Assign"
            /\ (Len(Node(r).targets) > 1 \/ Node(r).targets[1].kind = "Tuple") )
          => /\ errors'[r] = errors[r]
             /\ symbol_table' = symbol_table]_vars

OnlyWhileLoops(c) ==
    /\ c.kind = "Module"
    /\ c.body # << >>
    /\ \A i \in 1..Len(c.body) : c.body[i].kind = "While"

\* C10 as claimed: a while loop is not recursed into, so a source text made of
\* while loops adds no diagnostic and binds no name.
C10_WhileBodyNotVisited ==
    \A r \in Runs :
        (pc[r] \in {"walk", "returned"} /\ OnlyWhileLoops(code[r]))
        => (symbol_table = EmptyTable /\ errors[r] = << >>)

\* A while loop written as its test, as an expression statement, followed by
\* the statements of its body and of its else part.
RECURSIVE Unrolled(_)
Unrolled(stmts) ==
    IF stmts = << >> THEN << >>
    ELSE LET s == Head(stmts)
         IN  (IF s.kind = "While"
              THEN <<ExprStmt(s.test)>> \o s.body \o s.orelse
              ELSE <<s>>) \o Unrolled(Tail(stmts))

HasWhile(c) ==
    /\ c.kind = "Module"
    /\ \E i \in 1..Len(c.body) : c.body[i].kind = "While"

\* C10 as amended: a while loop is recursed into by the default traversal, and
\* an assignment in its body has the effect it has at top level: the run ends
\* with the result and the symbol table of the text in which the loop is
\* replaced by its test and the statements of its body.
C10_WhileBodyVisited ==
    \A r \in Runs :
        (Ended(r) /\ HasWhile(code[r]))
        => LET w == WalkAll(Walker(EmptyTable, << >>, Unrolled(code[r].body)))
           IN  result[r] = Outcome(w) /\ symbol_table = w.table

\* C10 witness: while x: x = 1 has bound x.
C10_Witness ==
    \E r \in Runs :
        /\ pc[r] = "returned"
        /\ code[r] = Module(<<While(X, <<Assign(<<X>>, IntLit)>>, << >>)>>)
        /\ result[r].kind = "Clean"
        /\ symbol_table = ("x" :> "int")

=============================================================================
